---- MODULE Spec2Model ----
(***************************************************************************)
(* obsidian-auto-card-link: URL classification (the regular expressions of *)
(* DEFAULT_SETTINGS and the CheckIf predicates built on them) and the      *)
(* plugin's entry points (onPaste, manualPasteAndEnhanceURL,               *)
(* enhanceSelectedURL, onEditorMenu).                                      *)
(*                                                                         *)
(* A string is a sequence of one-character strings.  A regular expression  *)
(* is a syntax tree and Run enumerates its matches at a position in the    *)
(* priority order of a backtracking matcher, so that the first element is  *)
(* the match RegExp.prototype.exec reports.                                *)
(***************************************************************************)
EXTENDS Integers, Sequences, FiniteSets, TLC

----------------------------------------------------------------------------
(* Characters *)

UpperLetters ==
  <<"A","B","C","D","E","F","G","H","I","J","K","L","M",
    "N","O","P","Q","R","S","T","U","V","W","X","Y","Z">>

LowerLetters ==
  <<"a","b","c","d","e","f","g","h","i","j","k","l","m",
    "n","o","p","q","r","s","t","u","v","w","x","y","z">>

Digits == {"0","1","2","3","4","5","6","7","8","9"}

UpperSet == {UpperLetters[k] : k \in 1..26}
LowerSet == {LowerLetters[k] : k \in 1..26}

RECURSIVE FoldTable(_)
FoldTable(k) ==
  IF k = 1 THEN UpperLetters[1] :> LowerLetters[1]
  ELSE FoldTable(k - 1) @@ (UpperLetters[k] :> LowerLetters[k])

ToLower == FoldTable(26)

\* the i flag: characters are compared after case folding
Canonicalize(c) == IF c \in UpperSet THEN ToLower[c] ELSE c

\* [a-zA-Z0-9]
AlnumClass == UpperSet \cup LowerSet \cup Digits

\* \s
WhiteSpaceClass == {" ", "\t", "\n", "\r"}

\* an optional value: <<>> is null/undefined, <<v>> is the value v
None == <<>>
Some(v) == <<v>>

----------------------------------------------------------------------------
(* Regular expression syntax *)

\* a character class and a negated one; the patterns all carry the i flag, under
\* which the class and the character are compared after case folding
Chr(S) == [t |-> "set", neg |-> FALSE, cs |-> {Canonicalize(d) : d \in S}]
NotChr(S) == [t |-> "set", neg |-> TRUE, cs |-> {Canonicalize(d) : d \in S}]
Cat(rs) == [t |-> "cat", rs |-> rs]
Alt(rs) == [t |-> "alt", rs |-> rs]
\* greedy r{min,max}; max = -1 is unbounded
Rep(r, min, max) == [t |-> "rep", r |-> r, min |-> min, max |-> max]
NegLookahead(r) == [t |-> "nla", r |-> r]
Group(n, r) == [t |-> "grp", n |-> n, r |-> r]
Bol == [t |-> "bol"]
Eol == [t |-> "eol"]
RECURSIVE LitFrom(_, _)
LitFrom(cs, k) == IF k > Len(cs) THEN <<>> ELSE <<Chr({cs[k]})>> \o LitFrom(cs, k + 1)
Lit(cs) == Cat(LitFrom(cs, 1))

Unbounded == -1

\* capture groups 1 and 2, unset
NoCaptures == << <<-1, -1>>, <<-1, -1>> >>

----------------------------------------------------------------------------
(* Matching *)

CharIn(c, S) == Canonicalize(c) \in S

\* capture group n of g set to the characters i+1..e
SetCapture(g, n, i, e) == IF n = 1 THEN << <<i, e>>, g[2] >> ELSE << g[1], <<i, e>> >>

RECURSIVE Run(_, _, _, _)
RECURSIVE RunAlt(_, _, _, _, _)
RECURSIVE RunCat(_, _, _, _, _)
RECURSIVE RunCatRest(_, _, _, _)
RECURSIVE RunRep(_, _, _, _, _)
RECURSIVE RunRepRest(_, _, _, _, _)
RECURSIVE RunGroup(_, _, _)

\* the matches of r in s starting after i characters, most preferred first;
\* a match is [e |-> characters consumed up to its end, g |-> captures]
Run(r, s, i, g) ==
  CASE r.t = "set" ->
         IF i < Len(s) /\ (CharIn(s[i+1], r.cs) # r.neg)
           THEN << [e |-> i + 1, g |-> g] >> ELSE <<>>
    [] r.t = "bol" -> IF i = 0 THEN << [e |-> i, g |-> g] >> ELSE <<>>
    [] r.t = "eol" -> IF i = Len(s) THEN << [e |-> i, g |-> g] >> ELSE <<>>
    [] r.t = "cat" -> RunCat(r.rs, 1, s, i, g)
    [] r.t = "alt" -> RunAlt(r.rs, 1, s, i, g)
    [] r.t = "rep" -> RunRep(r, 0, s, i, g)
    [] r.t = "nla" -> IF Run(r.r, s, i, g) = <<>> THEN << [e |-> i, g |-> g] >> ELSE <<>>
    [] r.t = "grp" -> RunGroup(Run(r.r, s, i, g), r.n, i)

\* alternatives k.. in order
RunAlt(rs, k, s, i, g) ==
  IF k > Len(rs) THEN <<>> ELSE Run(rs[k], s, i, g) \o RunAlt(rs, k + 1, s, i, g)

\* the factors k.. in sequence
RunCat(rs, k, s, i, g) ==
  IF k > Len(rs) THEN << [e |-> i, g |-> g] >>
  ELSE RunCatRest(Run(rs[k], s, i, g), rs, k, s)

RunCatRest(first, rs, k, s) ==
  IF first = <<>> THEN <<>>
  ELSE RunCat(rs, k + 1, s, Head(first).e, Head(first).g) \o RunCatRest(Tail(first), rs, k, s)

\* n iterations done; greedy: one more iteration is tried before stopping
RunRep(r, n, s, i, g) ==
  (IF r.max # Unbounded /\ n >= r.max THEN <<>>
   ELSE RunRepRest(Run(r.r, s, i, g), r, n, s, i))
    \o (IF n >= r.min THEN << [e |-> i, g |-> g] >> ELSE <<>>)

RunRepRest(more, r, n, s, i) ==
  IF more = <<>> THEN <<>>
  ELSE (IF Head(more).e > i THEN RunRep(r, n + 1, s, Head(more).e, Head(more).g) ELSE <<>>)
         \o RunRepRest(Tail(more), r, n, s, i)

RunGroup(inner, n, i) ==
  IF inner = <<>> THEN <<>>
  ELSE << [e |-> Head(inner).e, g |-> SetCapture(Head(inner).g, n, i, Head(inner).e)] >>
         \o RunGroup(Tail(inner), n, i)

Slice(s, from, to) == SubSeq(s, from + 1, to)

\* RegExp.prototype.exec from lastIndex: the leftmost start that matches
HasMatchFrom(r, s, from) == \E i \in from..Len(s) : Run(r, s, i, NoCaptures) # <<>>

MatchStart(r, s, from) ==
  CHOOSE i \in from..Len(s) :
    /\ Run(r, s, i, NoCaptures) # <<>>
    /\ \A j \in from..(i - 1) : Run(r, s, j, NoCaptures) = <<>>

\* [start, end, g] of the match found
Exec(r, s, from) ==
  LET i == MatchStart(r, s, from)
      m == Head(Run(r, s, i, NoCaptures))
  IN  [start |-> i, end |-> m.e, g |-> m.g]

\* RegExp.prototype.test
Test(r, s) == HasMatchFrom(r, s, 0)

\* every match of a global (g flag) pattern, left to right
RECURSIVE MatchAllFrom(_, _, _)
MatchAllFrom(r, s, from) ==
  IF from > Len(s) \/ ~HasMatchFrom(r, s, from) THEN <<>>
  ELSE LET m == Exec(r, s, from)
       IN  <<Slice(s, m.start, m.end)>>
             \o MatchAllFrom(r, s, IF m.end = m.start THEN m.end + 1 ELSE m.end)

MatchAll(r, s) == MatchAllFrom(r, s, 0)

\* String.prototype.trim
RECURSIVE TrimStart(_)
TrimStart(s) ==
  IF s # <<>> /\ Head(s) \in WhiteSpaceClass THEN TrimStart(Tail(s)) ELSE s

RECURSIVE TrimEnd(_)
TrimEnd(s) ==
  IF s # <<>> /\ s[Len(s)] \in WhiteSpaceClass THEN TrimEnd(SubSeq(s, 1, Len(s) - 1)) ELSE s

Trim(s) == TrimEnd(TrimStart(s))

RECURSIVE IndexOfAny(_, _, _)
\* the first index from k on of a character of S in s, Len(s) + 1 when none
IndexOfAny(s, S, k) ==
  IF k > Len(s) THEN Len(s) + 1
  ELSE IF s[k] \in S THEN k ELSE IndexOfAny(s, S, k + 1)

----------------------------------------------------------------------------
(* DEFAULT_SETTINGS *)

Alnum == Chr(AlnumClass)
AlnumOrHyphen == Chr(AlnumClass \cup {"-"})
NonSpace == NotChr(WhiteSpaceClass)
Dot == Chr({"."})

\* https?:\/\/(?:www\.|(?!www))
SchemePart ==
  Cat(<< Lit(<<"h","t","t","p">>), Rep(Chr({"s"}), 0, 1), Lit(<<":","/","/">>),
         Alt(<< Lit(<<"w","w","w",".">>), NegLookahead(Lit(<<"w","w","w">>)) >>) >>)

WwwPart == Lit(<<"w","w","w",".">>)

\* [a-zA-Z0-9][a-zA-Z0-9-]+[a-zA-Z0-9]\.[^\s]{2,}
LongHostPart ==
  Cat(<< Alnum, Rep(AlnumOrHyphen, 1, Unbounded), Alnum, Dot, Rep(NonSpace, 2, Unbounded) >>)

\* [a-zA-Z0-9]+\.[^\s]{2,}
ShortHostPart ==
  Cat(<< Rep(Alnum, 1, Unbounded), Dot, Rep(NonSpace, 2, Unbounded) >>)

\* the alternation shared by regex, lineRegex, linkRegex and linkLineRegex
UrlAlternation ==
  Alt(<< Cat(<<SchemePart, LongHostPart>>),
         Cat(<<WwwPart, LongHostPart>>),
         Cat(<<SchemePart, ShortHostPart>>),
         Cat(<<WwwPart, ShortHostPart>>) >>)

\* the pattern without its anchors
regexUnanchored == Cat(<< Group(1, UrlAlternation) >>)

regex == Cat(<< Bol, Group(1, UrlAlternation), Eol >>)

lineRegex == Group(1, UrlAlternation)

\* ^\[([^[\]]*)\]\((...)\)$
linkRegex ==
  Cat(<< Bol, Chr({"["}), Group(1, Rep(NotChr({"[", "]"}), 0, Unbounded)), Chr({"]"}),
         Chr({"("}), Group(2, UrlAlternation), Chr({")"}), Eol >>)

ImageExtensions ==
  Alt(<< Lit(<<"g","i","f">>),
         Cat(<< Lit(<<"j","p">>), Rep(Chr({"e"}), 0, 1), Lit(<<"g">>) >>),
         Cat(<< Lit(<<"t","i","f">>), Rep(Chr({"f"}), 0, 1) >>),
         Lit(<<"p","n","g">>), Lit(<<"w","e","b","p">>), Lit(<<"b","m","p">>),
         Lit(<<"t","g","a">>), Lit(<<"p","s","d">>), Lit(<<"a","i">>) >>)

\* \.(gif|jpe?g|tiff?|png|webp|bmp|tga|psd|ai)$
imageRegex == Cat(<< Dot, Group(1, ImageExtensions), Eol >>)

----------------------------------------------------------------------------
(* CheckIf *)

isUrl(text) == Test(regex, Trim(text))

isLinkedUrl(text) == Test(linkRegex, Trim(text))

isImage(text) == Test(imageRegex, text)

\* the first capture (the label) returned in place of the second
getUrlFromLinkLabel(link) ==
  IF ~HasMatchFrom(linkRegex, link, 0) THEN <<>>
  ELSE LET m == Exec(linkRegex, link, 0)
       IN  Slice(link, m.g[1][1], m.g[1][2])

\* getUrlFromLink: the second capture of linkRegex, "" when there is no match
getUrlFromLink(link) ==
  IF ~HasMatchFrom(linkRegex, link, 0) THEN <<>>
  ELSE LET m == Exec(linkRegex, link, 0)
       IN  Slice(link, m.g[2][1], m.g[2][2])

----------------------------------------------------------------------------
(* The card block: LinkMetadata and its textual block *)

\* a LinkMetadata: url and title are strings, description, host and image are
\* optional strings, indent is a number
LinkMetadata(url, title, description, host, image, indent) ==
  [ url |-> url, title |-> title, description |-> description, host |-> host,
    image |-> image, indent |-> indent ]

\* the key vocabulary, in the order the keys are written
KeyOrder == <<"url", "title", "description", "host", "image">>

KeyText ==
  [ url |-> <<"u","r","l">>,
    title |-> <<"t","i","t","l","e">>,
    description |-> <<"d","e","s","c","r","i","p","t","i","o","n">>,
    host |-> <<"h","o","s","t">>,
    image |-> <<"i","m","a","g","e">> ]

\* Some(the value of field k), None for an optional field that is absent
FieldOf(r, k) == IF k \in {"url", "title"} THEN Some(r[k]) ELSE r[k]

\* the block delimiters: a fenced code block of the language the processor is
\* registered for (the fence written with tildes)
BlockOpen == <<"~","~","~","c","a","r","d","l","i","n","k">>
BlockClose == <<"~","~","~">>

\* one level of indentation
IndentUnit == <<" ", " ">>

RECURSIVE Indentation(_)
Indentation(n) == IF n = 0 THEN <<>> ELSE IndentUnit \o Indentation(n - 1)

RECURSIVE EscapeFromQuotes(_, _)
\* the backslash left as it is
EscapeFromQuotes(v, k) ==
  IF k > Len(v) THEN <<>>
  ELSE (CASE v[k] = "\"" -> <<"\\", "\"">>
          [] v[k] = "\n" -> <<"\\", "n">>
          [] OTHER -> <<v[k]>>) \o EscapeFromQuotes(v, k + 1)

RECURSIVE EscapeFrom(_, _)
\* backslash, quote and line break written as two characters
EscapeFrom(v, k) ==
  IF k > Len(v) THEN <<>>
  ELSE (CASE v[k] = "\\" -> <<"\\", "\\">>
          [] v[k] = "\"" -> <<"\\", "\"">>
          [] v[k] = "\n" -> <<"\\", "n">>
          [] OTHER -> <<v[k]>>) \o EscapeFrom(v, k + 1)

\* a value as written: quoted, so that a colon or a space at either end of it is
\* not taken for structure
Escape(v) == <<"\"">> \o EscapeFrom(v, 1) \o <<"\"">>

RECURSIVE UnescapeFrom(_, _)
\* Some(the value) of the characters k.. of a quoted value up to its closing
\* quote, which must end the line; None when they are not that
UnescapeFrom(w, k) ==
  IF k > Len(w) THEN None
  ELSE IF w[k] = "\"" THEN (IF k = Len(w) THEN Some(<<>>) ELSE None)
  ELSE IF w[k] = "\\" THEN
    (IF k + 1 > Len(w) \/ w[k + 1] \notin {"\\", "\"", "n"} THEN None
     ELSE LET rest == UnescapeFrom(w, k + 2)
          IN  IF rest = None THEN None
              ELSE Some(<<(IF w[k + 1] = "n" THEN "\n" ELSE w[k + 1])>> \o rest[1]))
  ELSE LET rest == UnescapeFrom(w, k + 1)
       IN  IF rest = None THEN None ELSE Some(<<w[k]>> \o rest[1])

Unescape(w) == IF w = <<>> \/ w[1] # "\"" THEN None ELSE UnescapeFrom(w, 2)

RECURSIVE EncodeFields(_, _)
\* the lines of the fields k.. of a record
EncodeFields(r, k) ==
  IF k > Len(KeyOrder) THEN <<>>
  ELSE (IF FieldOf(r, KeyOrder[k]) = None THEN <<>>
        ELSE << Indentation(r.indent) \o KeyText[KeyOrder[k]] \o <<":", " ">>
                  \o Escape(FieldOf(r, KeyOrder[k])[1]) >>)
         \o EncodeFields(r, k + 1)

RECURSIVE EncodeRecords(_)
EncodeRecords(rs) ==
  IF rs = <<>> THEN <<>> ELSE EncodeFields(Head(rs), 1) \o EncodeRecords(Tail(rs))

\* encode: the lines of the block of a sequence of records
Encode(rs) == <<BlockOpen>> \o EncodeRecords(rs) \o <<BlockClose>>

RECURSIVE LeadingSpaces(_, _)
LeadingSpaces(line, k) ==
  IF k <= Len(line) /\ line[k] = " " THEN LeadingSpaces(line, k + 1) ELSE k - 1

\* a line as [ok, indent, key, value]: its indentation in units, the key before
\* the first ": " and the unescaped value after it
ParseLine(line) ==
  LET bad == [ok |-> FALSE, indent |-> 0, key |-> <<>>, value |-> <<>>]
      n == LeadingSpaces(line, 1)
      colon == IndexOfAny(line, {":"}, n + 1)
      value == IF colon + 1 <= Len(line) /\ line[colon + 1] = " "
                 THEN Unescape(SubSeq(line, colon + 2, Len(line))) ELSE None
  IN  IF n % Len(IndentUnit) # 0 \/ value = None THEN bad
      ELSE [ ok |-> TRUE, indent |-> n \div Len(IndentUnit),
             key |-> SubSeq(line, n + 1, colon - 1), value |-> value[1] ]

\* a record being read: Some(value) for each key seen
EmptyRecord(indent) ==
  [ url |-> None, title |-> None, description |-> None, host |-> None,
    image |-> None, indent |-> indent ]

KnownKey(key) == \E k \in DOMAIN KeyText : KeyText[k] = key

KeyNamed(key) == CHOOSE k \in DOMAIN KeyText : KeyText[k] = key

RECURSIVE GroupLines(_, _, _, _)
\* the records of the parsed lines k..: a line starts a new record when its key
\* is one the current record has or when it is indented less than the record;
\* any other line is added to the current record; lines of unknown keys are skipped
GroupLines(ls, k, cur, acc) ==
  IF k > Len(ls) THEN acc \o cur
  ELSE IF ~KnownKey(ls[k].key) THEN GroupLines(ls, k + 1, cur, acc)
  ELSE LET key == KeyNamed(ls[k].key)
           fresh == [EmptyRecord(ls[k].indent) EXCEPT ![key] = Some(ls[k].value)]
       IN  IF cur = <<>> THEN GroupLines(ls, k + 1, <<fresh>>, acc)
           ELSE IF ls[k].indent < cur[1].indent \/ cur[1][key] # None
             THEN GroupLines(ls, k + 1, <<fresh>>, acc \o cur)
           ELSE GroupLines(ls, k + 1, << [cur[1] EXCEPT ![key] = Some(ls[k].value)] >>, acc)

RECURSIVE ParseLines(_)
ParseLines(lines) ==
  IF lines = <<>> THEN <<>> ELSE <<ParseLine(Head(lines))>> \o ParseLines(Tail(lines))

RECURSIVE ToLinkMetadata(_)
ToLinkMetadata(rs) ==
  IF rs = <<>> THEN <<>>
  ELSE << LinkMetadata(Head(rs).url[1], Head(rs).title[1], Head(rs).description,
                       Head(rs).host, Head(rs).image, Head(rs).indent) >>
         \o ToLinkMetadata(Tail(rs))

DecodeFailure == [ok |-> FALSE, records |-> <<>>]

\* decode of one block, given whether its closing delimiter was found and the
\* lines between its delimiters
DecodeBlock(block) ==
  LET ls == ParseLines(block.lines)
      rs == GroupLines(ls, 1, <<>>, <<>>)
  IN  IF ~block.closed THEN DecodeFailure
      ELSE IF \E k \in 1..Len(ls) : ~ls[k].ok THEN DecodeFailure
      ELSE IF \E k \in 1..Len(rs) : rs[k].url = None \/ rs[k].title = None THEN DecodeFailure
      ELSE [ok |-> TRUE, records |-> ToLinkMetadata(rs)]

RECURSIVE ScanBlocks(_, _, _, _)
\* the blocks of the lines k.. of a text; cur is Some(the lines so far) inside a
\* block.  A block is unterminated when another opening delimiter or the end of
\* the text comes before its closing delimiter.
ScanBlocks(lines, k, cur, acc) ==
  IF k > Len(lines)
    THEN (IF cur = None THEN acc ELSE Append(acc, [closed |-> FALSE, lines |-> cur[1]]))
  ELSE IF lines[k] = BlockOpen
    THEN ScanBlocks(lines, k + 1, Some(<<>>),
           IF cur = None THEN acc ELSE Append(acc, [closed |-> FALSE, lines |-> cur[1]]))
  ELSE IF cur = None THEN ScanBlocks(lines, k + 1, cur, acc)
  ELSE IF lines[k] = BlockClose
    THEN ScanBlocks(lines, k + 1, None, Append(acc, [closed |-> TRUE, lines |-> cur[1]]))
  ELSE ScanBlocks(lines, k + 1, Some(Append(cur[1], lines[k])), acc)

\* the blocks of a text
Blocks(lines) == ScanBlocks(lines, 1, None, <<>>)

----------------------------------------------------------------------------
(* Texts *)

Str_http == <<"h","t","t","p",":","/","/">>
Str_https == <<"h","t","t","p","s",":","/","/">>
Str_HTTP == <<"H","T","T","P",":","/","/">>
Str_www == <<"w","w","w",".">>
Str_exampleCom == <<"e","x","a","m","p","l","e",".","c","o","m">>
Str_exampleAi == <<"e","x","a","m","p","l","e",".","a","i">>
Str_hyphenHost == <<"a","-","b",".","i","o">>
Str_shortHost == <<"e",".","x">>
Str_path == <<"/","p","a","t","h">>
Str_photoJPG == <<"/","p","h","o","t","o",".","J","P","G">>
Str_pngQuery == <<"/","p",".","p","n","g","?","x","=","1">>
Str_queryPng == <<"/","x","?","f","=","y",".","p","n","g">>
Str_parens == <<"/","(","b",")">>
Str_see == <<"s","e","e"," ">>
Str_now == <<" ","n","o","w">>
Str_Example == <<"E","x","a","m","p","l","e">>
Str_hello == <<"h","e","l","l","o">>

\* [label](url)
MarkdownLink(label, url) == <<"[">> \o label \o <<"]", "(">> \o url \o <<")">>

----------------------------------------------------------------------------
(* State *)

VARIABLES
  online,      \* navigator.onLine
  settings,    \* this.settings
  menuItems,   \* the items of the editor menu that is open
  pastePc,     \* onPaste: "idle", or "awaiting" convertUrlToCodeBlock
  manualPc,    \* manualPasteAndEnhanceURL: "idle", or "readText" (awaiting the clipboard)
  last,        \* what the last run of a handler was given and what it did
  cIn,         \* classification: the parts of the text classified
  cOp,         \* classification: the operation applied to it, "none" before
  cRes,        \* classification: Some(its result)
  kCards,      \* document: the records of each of its card blocks
  kDamage,     \* document: what a later edit did to each block, "none" if nothing
  kText,       \* document: Some(its lines) once written
  kResults     \* document: Some(what the block processor made of it) for each block

pluginVars == <<online, settings, menuItems, pastePc, manualPc, last>>
classifyVars == <<cIn, cOp, cRes>>
codecVars == <<kCards, kDamage, kText, kResults>>
vars == <<online, settings, menuItems, pastePc, manualPc, last, cIn, cOp, cRes,
          kCards, kDamage, kText, kResults>>

----------------------------------------------------------------------------
(* The plugin *)

\* the selected or pasted texts tried
Texts ==
  { <<>>,
    Str_hello,
    Str_https \o Str_exampleCom \o Str_path,
    Str_https \o Str_exampleCom \o Str_photoJPG,
    Str_https \o Str_exampleAi,
    <<" ">> \o Str_www \o Str_hyphenHost \o Str_path \o <<"\n">>,
    MarkdownLink(Str_Example, Str_https \o Str_exampleCom \o Str_path),
    MarkdownLink(Str_Example, Str_http \o Str_exampleCom \o Str_photoJPG) }

MaxFiles == 1

\* evt.clipboardData of a paste: absent, or its files and its text/plain data
ClipboardEvents ==
  { [data |-> FALSE, files |-> 0, text |-> <<>>] }
    \cup { [data |-> TRUE, files |-> n, text |-> Str_https \o Str_exampleCom \o Str_path] :
             n \in 1..MaxFiles }
    \cup { [data |-> TRUE, files |-> 0, text |-> t] : t \in Texts }

NoEffect == [op |-> "none", convert |-> None]

\* no text is being classified
NoInput ==
  [pre |-> <<>>, label |-> None, scheme |-> <<>>, www |-> <<>>, host |-> <<>>,
   tail |-> <<>>, post |-> <<>>]


Init ==
  /\ online \in BOOLEAN
  /\ settings = [showInMenuItem |-> TRUE, enhanceDefaultPaste |-> TRUE]
  /\ menuItems = {}
  /\ pastePc = "idle"
  /\ manualPc = "idle"
  /\ last = NoEffect
  /\ cIn = NoInput
  /\ cOp = "none"
  /\ cRes = None
  /\ kCards = <<>>
  /\ kDamage = <<>>
  /\ kText = None
  /\ kResults = <<>>

\* window online / offline events
SetOnline(b) ==
  /\ online # b
  /\ online' = b
  /\ UNCHANGED <<settings, menuItems, pastePc, manualPc, last>>
  /\ UNCHANGED <<classifyVars, codecVars>>

\* the two toggles of the settings tab
ToggleEnhanceDefaultPaste ==
  /\ settings' = [settings EXCEPT !.enhanceDefaultPaste = ~@]
  /\ UNCHANGED <<online, menuItems, pastePc, manualPc, last>>
  /\ UNCHANGED <<classifyVars, codecVars>>

ToggleShowInMenuItem ==
  /\ settings' = [settings EXCEPT !.showInMenuItem = ~@]
  /\ UNCHANGED <<online, menuItems, pastePc, manualPc, last>>
  /\ UNCHANGED <<classifyVars, codecVars>>

\* enhanceSelectedURL: selectedText is the trimmed selection; convert is
\* Some(argument of convertUrlToCodeBlock) and onLine is navigator.onLine then
enhanceSelectedURL(selection) ==
  LET selectedText == Trim(selection)
  IN  /\ last' = [ op |-> "enhanceSelectedURL",
                   selectedText |-> selectedText,
                   onLine |-> online,
                   convert |-> IF isUrl(selectedText) THEN Some(selectedText)
                               ELSE IF isLinkedUrl(selectedText)
                                 THEN Some(getUrlFromLink(selectedText))
                               ELSE None ]
      /\ UNCHANGED <<online, settings, pastePc, manualPc>>

\* manualPasteAndEnhanceURL up to its await of navigator.clipboard.readText()
manualPasteAndEnhanceURL ==
  /\ manualPc = "idle"
  /\ manualPc' = "readText"
  /\ UNCHANGED <<online, settings, pastePc, last>>

\* the image test left out
manualPasteEffectImages(clipboardText) ==
  LET effect(conv, repl) ==
        [ op |-> "manualPasteAndEnhanceURL", clipboardText |-> clipboardText,
          onLine |-> online, convert |-> conv, replace |-> repl ]
  IN  IF clipboardText = None \/ clipboardText = Some(<<>>) THEN effect(None, None)
      ELSE IF ~online THEN effect(None, clipboardText)
      ELSE IF ~isUrl(clipboardText[1]) THEN effect(None, clipboardText)
      ELSE effect(clipboardText, None)

\* what manualPasteAndEnhanceURL does once the clipboard text is read: replace is
\* Some(argument of editor.replaceSelection)
manualPasteEffect(clipboardText) ==
  LET effect(conv, repl) ==
        [ op |-> "manualPasteAndEnhanceURL", clipboardText |-> clipboardText,
          onLine |-> online, convert |-> conv, replace |-> repl ]
  IN  IF clipboardText = None \/ clipboardText = Some(<<>>) THEN effect(None, None)
      ELSE IF ~online THEN effect(None, clipboardText)
      ELSE IF ~isUrl(clipboardText[1]) \/ isImage(clipboardText[1])
        THEN effect(None, clipboardText)
      ELSE effect(clipboardText, None)

\* the rest of manualPasteAndEnhanceURL, run when readText resolves
manualPasteResume(clipboardText) ==
  /\ manualPc = "readText"
  /\ manualPc' = "idle"
  /\ last' = manualPasteEffect(clipboardText)
  /\ UNCHANGED <<online, settings, menuItems, pastePc>>
  /\ UNCHANGED <<classifyVars, codecVars>>

\* the files test left out
onPasteHandlesFiles(evt) ==
  /\ settings.enhanceDefaultPaste
  /\ online
  /\ evt.data
  /\ evt.text # <<>>
  /\ ~(~isUrl(evt.text) \/ isImage(evt.text))

\* the early returns of onPaste: TRUE when it goes on to handle the paste
onPasteHandles(evt) ==
  /\ settings.enhanceDefaultPaste
  /\ online
  /\ evt.data
  /\ ~(evt.files > 0)
  /\ evt.text # <<>>
  /\ ~(~isUrl(evt.text) \/ isImage(evt.text))

\* onPaste up to its return or its await of convertUrlToCodeBlock
onPaste(evt) ==
  LET effect(handled) ==
        [ op |-> "onPaste", evt |-> evt,
          enhanceDefaultPaste |-> settings.enhanceDefaultPaste, onLine |-> online,
          stopPropagation |-> handled, preventDefault |-> handled,
          convert |-> IF handled THEN Some(evt.text) ELSE None ]
  IN  /\ pastePc = "idle"
      /\ LET handled == onPasteHandles(evt)
         IN  /\ last' = effect(handled)
             /\ pastePc' = IF handled THEN "awaiting" ELSE "idle"
      /\ UNCHANGED <<online, settings, menuItems, manualPc>>
      /\ UNCHANGED <<classifyVars, codecVars>>

\* convertUrlToCodeBlock resolves and onPaste returns
onPasteResume ==
  /\ pastePc = "awaiting"
  /\ pastePc' = "idle"
  /\ UNCHANGED <<online, settings, menuItems, manualPc, last>>
  /\ UNCHANGED <<classifyVars, codecVars>>

\* the items onEditorMenu adds to a menu
onEditorMenuItems ==
  IF ~settings.showInMenuItem THEN {}
  ELSE IF ~online THEN {"Paste URL and enhance to card link"}
  ELSE {"Paste URL and enhance to card link", "Enhance selected URL to card link"}

\* the editor menu opens
onEditorMenu ==
  /\ menuItems' = onEditorMenuItems
  /\ UNCHANGED <<online, settings, pastePc, manualPc, last>>
  /\ UNCHANGED <<classifyVars, codecVars>>

\* the menu is dismissed without a click
CloseMenu ==
  /\ menuItems # {}
  /\ menuItems' = {}
  /\ UNCHANGED <<online, settings, pastePc, manualPc, last>>
  /\ UNCHANGED <<classifyVars, codecVars>>

\* onClick of the menu's first item; getEditor() may find no Markdown view
ClickPasteItem(hasEditor) ==
  /\ "Paste URL and enhance to card link" \in menuItems
  /\ menuItems' = {}
  /\ IF hasEditor THEN manualPasteAndEnhanceURL
     ELSE UNCHANGED <<online, settings, pastePc, manualPc, last>>
  /\ UNCHANGED <<classifyVars, codecVars>>

\* onClick of the menu's second item
ClickEnhanceItem(hasEditor, selection) ==
  /\ "Enhance selected URL to card link" \in menuItems
  /\ menuItems' = {}
  /\ IF hasEditor THEN enhanceSelectedURL(selection)
     ELSE UNCHANGED <<online, settings, pastePc, manualPc, last>>
  /\ UNCHANGED <<classifyVars, codecVars>>

\* the command "Paste URL and enhance to card link"
CommandPasteAndEnhance ==
  /\ manualPasteAndEnhanceURL
  /\ UNCHANGED menuItems
  /\ UNCHANGED <<classifyVars, codecVars>>

\* the command "Enhance selected URL to card link" (editorCheckCallback, checking = false)
CommandEnhanceSelected(selection) ==
  /\ online
  /\ enhanceSelectedURL(selection)
  /\ UNCHANGED menuItems
  /\ UNCHANGED <<classifyVars, codecVars>>

Next ==
  \/ \E b \in BOOLEAN : SetOnline(b)
  \/ ToggleEnhanceDefaultPaste
  \/ ToggleShowInMenuItem
  \/ \E evt \in ClipboardEvents : onPaste(evt)
  \/ onPasteResume
  \/ CommandPasteAndEnhance
  \/ \E c \in {None} \cup {Some(t) : t \in Texts} : manualPasteResume(c)
  \/ \E t \in Texts : CommandEnhanceSelected(t)
  \/ onEditorMenu
  \/ CloseMenu
  \/ \E e \in BOOLEAN : ClickPasteItem(e)
  \/ \E e \in BOOLEAN, t \in Texts : ClickEnhanceItem(e, t)

----------------------------------------------------------------------------
(* Classification of one text *)

\* the text classified is pre, then a URL (scheme www host tail) bare or as the
\* target of a Markdown link with the given label, then post
Inputs ==
  [ pre : {<<>>, <<" ">>, Str_see},
    label : {None, Some(Str_Example), Some(<<"a", "]", "b">>)},
    scheme : {<<>>, Str_https, Str_HTTP},
    www : {<<>>, Str_www},
    host : {Str_exampleCom, Str_exampleAi, Str_shortHost},
    tail : {<<>>, Str_path, Str_photoJPG, Str_pngQuery, Str_queryPng, Str_parens},
    post : {<<>>, Str_now} ]

InputUrl(in) == in.scheme \o in.www \o in.host \o in.tail

InputText(in) ==
  in.pre \o (IF in.label = None THEN InputUrl(in) ELSE MarkdownLink(in.label[1], InputUrl(in)))
         \o in.post

Apply(op, result) ==
  /\ cOp = "none"
  /\ cOp' = op
  /\ cRes' = Some(result)
  /\ UNCHANGED <<cIn, online, settings, menuItems, pastePc, manualPc, last>>
  /\ UNCHANGED codecVars

CheckUrl == Apply("isUrl", isUrl(InputText(cIn)))
CheckLinkedUrl == Apply("isLinkedUrl", isLinkedUrl(InputText(cIn)))
CheckImage == Apply("isImage", isImage(InputText(cIn)))
ScanLine == Apply("lineRegex", MatchAll(lineRegex, InputText(cIn)))
\* getUrlFromLink is given the trimmed selection
ExtractUrl == Apply("getUrlFromLink", getUrlFromLink(Trim(InputText(cIn))))

\* the selection is the text and enhanceSelectedURL runs on it
EnhanceInput ==
  /\ cOp = "none"
  /\ cOp' = "enhanceSelectedURL"
  /\ cRes' = None
  /\ enhanceSelectedURL(InputText(cIn))
  /\ UNCHANGED <<cIn, menuItems>>
  /\ UNCHANGED codecVars

ClassifyNext ==
  \/ CheckUrl
  \/ CheckLinkedUrl
  \/ CheckImage
  \/ ScanLine
  \/ ExtractUrl
  \/ EnhanceInput

----------------------------------------------------------------------------
(* A document of card blocks *)

MaxCards == 2
MaxBlocks == 3

\* the records tried: every optional field absent, present and present but
\* empty; values with a colon, a quote, a backslash, a line break and spaces at
\* either end; indents that differ
Cards ==
  { LinkMetadata(<<"a">>, <<"t">>, None, None, None, 0),
    LinkMetadata(<<"a">>, <<"t", ":", " ", "\"", "\n", "\\">>, Some(<<>>), None, None, 1),
    LinkMetadata(<<"b">>, <<" ", "t", " ">>, Some(<<"d">>), Some(<<"h">>), Some(<<"i">>), 2),
    LinkMetadata(<<"b">>, <<>>, None, Some(<<"h", ":">>), None, 0),
    LinkMetadata(<<"a", ":">>, <<"\\", "n">>, None, None, Some(<<"\n">>), 1) }

SeqsUpTo(S, n) == UNION { [1..m -> S] : m \in 0..n }

CardLists == SeqsUpTo(Cards, MaxCards)

\* the lists of the documents of several blocks
FewCardLists ==
  { <<>>,
    << LinkMetadata(<<"a">>, <<"t">>, None, None, None, 0) >>,
    << LinkMetadata(<<"a">>, <<"t", ":", " ", "\"", "\n", "\\">>, Some(<<>>), None, None, 1),
       LinkMetadata(<<"b">>, <<" ", "t", " ">>, Some(<<"d">>), Some(<<"h">>), Some(<<"i">>), 2) >> }

Documents ==
  { <<cards>> : cards \in CardLists }
    \cup UNION { [1..m -> FewCardLists] : m \in 2..MaxBlocks }

\* a line of the document outside every block
Prose == <<"s", "e", "e", ":">>

\* the lines of a block after an edit: its closing delimiter deleted, the colon
\* of its first value line deleted, or its first url line deleted
Damaged(lines, damage) ==
  CASE damage = "none" -> lines
    [] damage = "unterminated" -> SubSeq(lines, 1, Len(lines) - 1)
    [] damage = "noDelimiter" ->
         LET colon == IndexOfAny(lines[2], {":"}, 1)
         IN  [lines EXCEPT ![2] = SubSeq(@, 1, colon - 1) \o SubSeq(@, colon + 1, Len(@))]
    [] damage = "noUrl" -> <<lines[1]>> \o SubSeq(lines, 3, Len(lines))

RECURSIVE DocumentLines(_, _, _)
\* the lines of the blocks k.. of the document, a line of prose before each
DocumentLines(cards, damage, k) ==
  IF k > Len(cards) THEN <<>>
  ELSE <<Prose>> \o Damaged(Encode(cards[k]), damage[k]) \o DocumentLines(cards, damage, k + 1)

\* the cards are encoded and written into the document
WriteCards ==
  /\ kText = None
  /\ kText' = Some(DocumentLines(kCards, kDamage, 1))
  /\ kResults' = [k \in 1..Len(Blocks(DocumentLines(kCards, kDamage, 1))) |-> None]
  /\ UNCHANGED <<kCards, kDamage>>
  /\ UNCHANGED <<pluginVars, classifyVars>>

\* block k of the document is edited by hand before anything is processed
EditBlock(k, damage) ==
  /\ kText # None
  /\ \A j \in 1..Len(kDamage) : kDamage[j] = "none"
  /\ \A j \in 1..Len(kResults) : kResults[j] = None
  /\ damage \in {"noDelimiter", "noUrl"} => kCards[k] # <<>>
  /\ kDamage' = [kDamage EXCEPT ![k] = damage]
  /\ kText' = Some(DocumentLines(kCards, kDamage', 1))
  /\ kResults' = [j \in 1..Len(Blocks(DocumentLines(kCards, kDamage', 1))) |-> None]
  /\ UNCHANGED kCards
  /\ UNCHANGED <<pluginVars, classifyVars>>

\* one processor for the whole document, failing every block after a failure
cardlinkProcessorShared(k) ==
  /\ kText # None
  /\ k \in 1..Len(kResults)
  /\ kResults[k] = None
  /\ kResults' = [kResults EXCEPT ![k] =
       Some(IF \E j \in 1..Len(kResults) : kResults[j] = Some(DecodeFailure)
              THEN DecodeFailure ELSE DecodeBlock(Blocks(kText[1])[k]))]
  /\ UNCHANGED <<kCards, kDamage, kText>>
  /\ UNCHANGED <<pluginVars, classifyVars>>

\* the "cardlink" code block processor registered by onload: block k is handed to
\* a new CodeBlockProcessor
cardlinkProcessor(k) ==
  /\ kText # None
  /\ k \in 1..Len(kResults)
  /\ kResults[k] = None
  /\ kResults' = [kResults EXCEPT ![k] = Some(DecodeBlock(Blocks(kText[1])[k]))]
  /\ UNCHANGED <<kCards, kDamage, kText>>
  /\ UNCHANGED <<pluginVars, classifyVars>>

CodecNext ==
  \/ WriteCards
  \/ \E k \in 1..Len(kCards), d \in {"unterminated", "noDelimiter", "noUrl"} : EditBlock(k, d)
  \/ \E k \in 1..MaxBlocks : cardlinkProcessor(k)

----------------------------------------------------------------------------
(* Specifications *)

\* the plugin under every interleaving of its handlers with the environment
Spec == Init /\ [][Next]_vars

ClassifyInit ==
  /\ online = TRUE
  /\ settings = [showInMenuItem |-> TRUE, enhanceDefaultPaste |-> TRUE]
  /\ menuItems = {}
  /\ pastePc = "idle"
  /\ manualPc = "idle"
  /\ last = NoEffect
  /\ cIn \in Inputs
  /\ cOp = "none"
  /\ cRes = None
  /\ kCards = <<>>
  /\ kDamage = <<>>
  /\ kText = None
  /\ kResults = <<>>

\* the classifiers applied to one text
SpecClassify == ClassifyInit /\ [][ClassifyNext]_vars

CodecInit ==
  /\ online = TRUE
  /\ settings = [showInMenuItem |-> TRUE, enhanceDefaultPaste |-> TRUE]
  /\ menuItems = {}
  /\ pastePc = "idle"
  /\ manualPc = "idle"
  /\ last = NoEffect
  /\ cIn = NoInput
  /\ cOp = "none"
  /\ cRes = None
  /\ kCards \in Documents
  /\ kDamage = [k \in 1..Len(kCards) |-> "none"]
  /\ kText = None
  /\ kResults = <<>>

\* card blocks written into a document, edited, and processed block by block
SpecCodec == CodecInit /\ [][CodecNext]_vars

----------------------------------------------------------------------------
(* Claims about the entry points, under Spec *)

\* C1: no entry point (onPaste, manualPasteAndEnhanceURL, enhanceSelectedURL)
\* invokes convertUrlToCodeBlock with a text that is both a URL and an image.
C1_ImageLinksExcluded ==
  last.convert # None => ~(isUrl(last.convert[1]) /\ isImage(last.convert[1]))

\* C7: onPaste stops propagation and prevents the default exactly when it invokes
\* convertUrlToCodeBlock, which is exactly when enhanceDefaultPaste is on, the
\* client is online, clipboardData is present with no files, and its text is
\* non-empty, a URL and not an image; the flags are set when the handler suspends.
C7_PasteSuppressedIffConverted ==
  last.op = "onPaste" =>
    LET evt == last.evt
        expected == /\ last.enhanceDefaultPaste
                    /\ last.onLine
                    /\ evt.data
                    /\ evt.files = 0
                    /\ evt.text # <<>>
                    /\ isUrl(evt.text)
                    /\ ~isImage(evt.text)
    IN  /\ last.stopPropagation = expected
        /\ last.preventDefault = expected
        /\ last.convert = (IF expected THEN Some(evt.text) ELSE None)
        /\ (pastePc = "awaiting" => last.stopPropagation /\ last.preventDefault)

C7_Witness ==
  /\ last.op = "onPaste"
  /\ pastePc = "awaiting"
  /\ last.preventDefault
  /\ last.convert = Some(last.evt.text)

\* C8: manualPasteAndEnhanceURL does nothing with a null or empty clipboard text;
\* otherwise it does exactly one thing: replaceSelection with the raw text when
\* offline, or the text is not a URL, or it is an image URL, and
\* convertUrlToCodeBlock on the text in every other case.
C8_ManualPasteOneEffect ==
  last.op = "manualPasteAndEnhanceURL" =>
    LET c == last.clipboardText
    IN  IF c = None \/ c = Some(<<>>) THEN last.convert = None /\ last.replace = None
        ELSE IF ~last.onLine \/ ~isUrl(c[1]) \/ isImage(c[1])
          THEN last.replace = c /\ last.convert = None
        ELSE last.convert = c /\ last.replace = None

C8_Witness ==
  /\ last.op = "manualPasteAndEnhanceURL"
  /\ last.clipboardText # None
  /\ last.convert = last.clipboardText
  /\ last.replace = None

\* C9: convertUrlToCodeBlock is never invoked while navigator.onLine is false.
C9_NeverConvertOffline ==
  last.convert # None => last.onLine

----------------------------------------------------------------------------
(* Claims about the classifiers, under SpecClassify *)

\* the URL of the input follows the bare-URL grammar by construction: a scheme
\* or www. prefix, a host, and two characters or more after the host's dot
WellFormedUrl(in) ==
  /\ in.scheme # <<>> \/ in.www # <<>>
  /\ in.host = Str_shortHost => in.tail # <<>>

\* the path of a URL: after the scheme and the host, before any query or fragment
PathOf(s) ==
  LET colon == IndexOfAny(s, {":"}, 1)
      authority == IF colon + 2 <= Len(s) /\ s[colon + 1] = "/" /\ s[colon + 2] = "/"
                     THEN colon + 3 ELSE 1
      from == IndexOfAny(s, {"/", "?", "#"}, authority)
      to == IndexOfAny(s, {"?", "#"}, authority)
  IN  IF from >= to THEN <<>> ELSE SubSeq(s, from, to - 1)

ImageExtensionNames ==
  { <<"g","i","f">>, <<"j","p","g">>, <<"j","p","e","g">>, <<"t","i","f","f">>,
    <<"t","i","f">>, <<"p","n","g">>, <<"w","e","b","p">>, <<"b","m","p">>,
    <<"t","g","a">>, <<"p","s","d">>, <<"a","i">> }

EndsIn(s, suffix) ==
  /\ Len(s) >= Len(suffix)
  /\ \A k \in 1..Len(suffix) :
       Canonicalize(s[Len(s) - Len(suffix) + k]) = suffix[k]

\* C2: a text that is a URL and an image has a path that ends, without regard
\* to case, in one of the image extensions.
C2_ImageUrlPathEndsInExtension ==
  (cOp = "isImage" /\ cRes = Some(TRUE) /\ isUrl(InputText(cIn)))
    => \E ext \in ImageExtensionNames : EndsIn(PathOf(Trim(InputText(cIn))), ext)

\* C3: a bare URL with other words before or after it is no URL for isUrl, and
\* the line scan finds the URL and nothing else in it; of the URL alone isUrl
\* holds and the scan finds the whole.
C3_IsUrlAnchored ==
  LET embedded == cIn.pre = Str_see \/ cIn.post = Str_now
      alone == cIn.pre = <<>> /\ cIn.post = <<>>
  IN  (cIn.label = None /\ WellFormedUrl(cIn) /\ (embedded \/ alone)) =>
        /\ cOp = "isUrl" => cRes = Some(alone)
        /\ cOp = "lineRegex" => cRes = Some(<<InputUrl(cIn)>>)

C3_Witness ==
  /\ cIn.label = None
  /\ WellFormedUrl(cIn)
  /\ cIn.pre = Str_see
  /\ cIn.post = Str_now
  /\ cOp = "lineRegex"
  /\ cRes = Some(<<InputUrl(cIn)>>)
  /\ ~isUrl(InputText(cIn))

\* C4: of a selection [label](URL) that isLinkedUrl accepts, getUrlFromLink
\* returns the URL between the parentheses, that URL follows the bare-URL
\* grammar, and enhanceSelectedURL gives it to convertUrlToCodeBlock.
C4_LinkedUrlExtracted ==
  (cIn.label # None /\ isLinkedUrl(InputText(cIn))) =>
    /\ Test(regex, InputUrl(cIn))
    /\ cOp = "getUrlFromLink" => cRes = Some(InputUrl(cIn))
    /\ cOp = "enhanceSelectedURL" => last.convert = Some(InputUrl(cIn))

C4_Witness ==
  /\ cIn.label = Some(Str_Example)
  /\ cIn.tail = Str_parens
  /\ cOp = "enhanceSelectedURL"
  /\ last.selectedText = MarkdownLink(Str_Example, InputUrl(cIn))
  /\ last.convert = Some(InputUrl(cIn))

----------------------------------------------------------------------------
(* Claims about the card block, under SpecCodec *)

====
